---- MODULE Spec2Model ----
(***************************************************************************)
(* Hotel booking chatbot: the draft store (models.py), the per-turn        *)
(* dialogue controller and the direct confirm/fetch routes (app.py), and   *)
(* the intent classifier and entity extractor (nlp_utils.py).              *)
(*                                                                         *)
(* Abstractions.  A datetime is a day ordinal (the time of day is not      *)
(* modelled); a year has YearLen days.  An utterance is the record of what *)
(* the code's regular expressions see in it (lex) and of what spaCy,       *)
(* dateparser and the extractor's regular expressions return for it (ent). *)
(* A draft's notes, a string the code only ever concatenates to, is the    *)
(* sequence of the event tags appended (timestamps dropped).               *)
(***************************************************************************)
EXTENDS Integers, Sequences, FiniteSets, TLC

VARIABLES bookings, resp, reqs

vars == <<bookings, resp, reqs>>

\* ---------------------------------------------------------------- bounds
MaxBookings == 2
MaxNotes == 1
MaxNights == 1
MaxMentions == 1
YearLen == 3

\* ------------------------------------------------------------- constants
\* Python's None in an integer column / a string column.
NoneInt == -1
NoneStr == "None"
\* datetime.now(), as a day ordinal: year 1, day 1 of the year.
Today == 4

Sessions == {"s1", "s2"}

Max(a, b) == IF a >= b THEN a ELSE b
Abs(x) == IF x >= 0 THEN x ELSE 0 - x

\* Python truthiness of an Integer column value / a string value.
TruthyInt(x) == x # NoneInt /\ x # 0
TruthyStr(x) == x # NoneStr /\ x # ""
\* A datetime is always truthy: only None is not.
TruthyDate(x) == x # NoneInt

\* ------------------------------------------------------------- models.py
\* A row as Booking(session_id=session) is inserted: every nullable column
\* None, confirmed at its default False.
NewBooking(session) ==
    [session_id |-> session, guest_name |-> NoneStr, checkin |-> NoneInt,
     checkout |-> NoneInt, nights |-> NoneInt, guests |-> NoneInt,
     breakfast |-> NoneStr, payment_method |-> NoneStr,
     confirmed |-> FALSE, notes |-> <<>>]

\* ---------------------------------------------------------- nlp_utils.py
\* What the regular expressions of detect_intent and
\* looks_like_name_response see in a stripped utterance:
\*   text        the utterance itself
\*   blank       it is empty
\*   sep         it has a character of [0-9/\\\-:]
\*   digit       it has a digit (\d)
\*   ntok        how many [A-Za-z]+ tokens it has (4 stands for "4 or more")
\*   directive   one of its tokens is a directive word
\*   namePhrase  it matches \b(i am|i'm|my name|name)\b
\*   kw          which of the CONFIRM/CANCEL/BOOK/GREET vocabularies match
\*   hint        it contains night, guest, people, from or to
Lex(text, sep, digit, ntok, directive, namePhrase, kw, hint) ==
    [text |-> text, blank |-> text = "", sep |-> sep, digit |-> digit,
     ntok |-> ntok, directive |-> directive, namePhrase |-> namePhrase,
     kw |-> kw, hint |-> hint]

LexBlank     == Lex("", FALSE, FALSE, 0, FALSE, FALSE, {}, FALSE)
LexName      == Lex("John Carter", FALSE, FALSE, 2, FALSE, FALSE, {}, FALSE)
LexCancel    == Lex("cancel", FALSE, FALSE, 1, FALSE, FALSE, {"cancel"}, FALSE)
LexConfirm   == Lex("confirm booking", FALSE, FALSE, 2, TRUE, FALSE,
                    {"confirm", "book"}, FALSE)
LexCancelMy  == Lex("cancel my booking", FALSE, FALSE, 3, TRUE, FALSE,
                    {"cancel", "book"}, FALSE)
LexMyName    == Lex("My name is John Carter", FALSE, FALSE, 4, FALSE, TRUE,
                    {}, FALSE)
LexDetails   == Lex("2 guests from June 10 to June 13, breakfast included",
                    TRUE, TRUE, 4, TRUE, FALSE, {}, TRUE)
LexOkDetails == Lex("ok, 2 guests on June 10", TRUE, TRUE, 4, TRUE, FALSE,
                    {"confirm"}, TRUE)
LexCancelDetails == Lex("cancel, make it 2 guests on June 10", TRUE, TRUE, 4,
                    TRUE, FALSE, {"cancel"}, TRUE)
LexHello     == Lex("hello there, I pay cash tomorrow", FALSE, FALSE, 4, FALSE,
                    FALSE, {"greet"}, FALSE)

Lexes == {LexBlank, LexName, LexCancel, LexConfirm, LexCancelMy, LexMyName,
          LexDetails, LexOkDetails, LexCancelDetails, LexHello}

detect_intent(lex) ==
    IF lex.blank THEN "unknown"
    ELSE IF "confirm" \in lex.kw THEN "confirm"
    ELSE IF "cancel" \in lex.kw THEN "cancel"
    ELSE IF "book" \in lex.kw THEN "book"
    ELSE IF "greet" \in lex.kw THEN "greet"
    ELSE IF lex.digit /\ lex.hint THEN "book"
    ELSE "unknown"

looks_like_name_response(lex) ==
    IF lex.blank THEN FALSE
    ELSE IF lex.sep THEN FALSE
    ELSE IF ~(1 <= lex.ntok /\ lex.ntok <= 3) THEN FALSE
    ELSE IF lex.directive THEN FALSE
    ELSE TRUE

\* The candidate of (year - 1, year, year + 1) with dt's month and day that
\* is closest to today; min() keeps the first of equally close candidates.
\* An explicit 20xx year in the matched text keeps dt.
ClosestOf(cands, i, best) ==
    IF Abs(cands[i] - Today) < Abs(best - Today) THEN cands[i] ELSE best

closest_year_for_month_day(dt, year4) ==
    IF year4 THEN dt
    ELSE LET md == dt % YearLen
             ty == Today \div YearLen
             cands == <<(ty - 1) * YearLen + md, ty * YearLen + md,
                        (ty + 1) * YearLen + md>>
         IN  ClosestOf(cands, 3, ClosestOf(cands, 2, cands[1]))

\* A date as dateparser returns it: the day, and whether the matched text
\* carries an explicit 20xx year.  NoPD: dateparser returned None.
NoPD == [day |-> NoneInt, year4 |-> FALSE]

ParsedDates ==
    {[day |-> Today, year4 |-> FALSE]}
    \cup {[day |-> Today + YearLen, year4 |-> y] : y \in BOOLEAN}

\* extract_entities returns a dict; a key it does not set reads as None.
EmptyExtract ==
    [name |-> NoneStr, guests |-> NoneInt, breakfast |-> NoneStr,
     payment_method |-> NoneStr, checkin |-> NoneInt, checkout |-> NoneInt,
     nights |-> NoneInt]

\* What spaCy, dateparser and the extractor's regular expressions return
\* for an utterance:
\*   person     the first PERSON entity, stripped (NoneStr: none)
\*   rxname     the name captured after "i am / i'm / my name is / this is"
\*   cardinals  the CARDINAL entities, each as the integer its digits spell
\*              (NoneInt: it has no digit, int("") raises and is skipped)
\*   rxguests   the number captured before guest(s)/person/people
\*   br         the breakfast token of lines 134-153, lower-cased
\*   pay        the payment token of lines 171-178, lower-cased
\*   hits       the dates search_dates found, in order
\*   forNights  the number captured by "for N night"
\*   trailing   parse_date of the phrase after to/until/through/-
\*   range      the two sides of the range pattern, each as parse_date
\*              returns it (<<>>: the pattern does not match)
NoEnt ==
    [person |-> NoneStr, rxname |-> NoneStr, cardinals |-> <<>>,
     rxguests |-> NoneInt, br |-> NoneStr, pay |-> NoneStr, hits |-> <<>>,
     forNights |-> NoneInt, trailing |-> NoPD, range |-> <<>>]

\* lines 107-114
ExtractName(e) == IF e.person # NoneStr THEN e.person ELSE e.rxname

\* lines 117-131: the first cardinal that parses, else (when that is falsy)
\* the regex's number.
RECURSIVE FirstInt(_)
FirstInt(cs) ==
    IF cs = <<>> THEN NoneInt
    ELSE IF Head(cs) # NoneInt THEN Head(cs)
    ELSE FirstInt(Tail(cs))

ExtractGuests(e) ==
    LET g == FirstInt(e.cardinals)
    IN  IF ~TruthyInt(g) /\ e.rxguests # NoneInt THEN e.rxguests ELSE g

\* lines 154-168
NormBreakfast(br) ==
    IF ~TruthyStr(br) THEN NoneStr
    ELSE IF br \in {"yes", "with", "included", "include"} THEN "Included"
    ELSE IF br \in {"no", "none", "without"} THEN "No"
    ELSE IF br = "continental" THEN "Continental"
    ELSE IF br = "buffet" THEN "Buffet"
    ELSE IF br \in {"full english", "full", "english"} THEN "Full English"
    ELSE IF br = "american" THEN "American"
    ELSE "Unspecified"

\* lines 179-186
NormPayment(pay) ==
    IF ~TruthyStr(pay) THEN NoneStr
    ELSE IF pay = "visa" THEN "Visa"
    ELSE IF pay = "mastercard" THEN "Mastercard"
    ELSE IF pay = "paypal" THEN "PayPal"
    ELSE IF pay = "cash" THEN "Cash"
    ELSE IF pay \in {"card", "debit", "credit"} THEN "Card"
    ELSE IF pay \in {"american express", "amex"} THEN "Amex"
    ELSE "Crypto"

\* lines 193-231: the dates search_dates found.
ExtractDates(x, e) ==
    LET n == [i \in 1..Len(e.hits) |->
                 closest_year_for_month_day(e.hits[i].day, e.hits[i].year4)]
    IN  IF Len(e.hits) >= 2 THEN
            LET swap == n[2] < n[1]
                ci == IF swap THEN n[2] ELSE n[1]
                co == IF swap THEN n[1] ELSE n[2]
            IN  [x EXCEPT !.checkin = ci, !.checkout = co,
                          !.nights = Max(1, co - ci)]
        ELSE IF Len(e.hits) = 1 THEN
            IF e.forNights # NoneInt THEN
                [x EXCEPT !.checkin = n[1], !.nights = e.forNights,
                          !.checkout = n[1] + e.forNights]
            ELSE IF e.trailing # NoPD THEN
                LET c1 == closest_year_for_month_day(e.trailing.day,
                                                     e.trailing.year4)
                    c2 == IF c1 < n[1]
                          THEN closest_year_for_month_day(c1, e.trailing.year4)
                          ELSE c1
                IN  [x EXCEPT !.checkin = n[1], !.checkout = c2,
                              !.nights = Max(1, c2 - n[1])]
            ELSE [x EXCEPT !.checkin = n[1]]
        ELSE x

\* lines 233-251: the "Jan 12-15" fallback, only when no checkin was set.
ExtractRange(x, e) ==
    IF e.range # <<>> /\ x.checkin = NoneInt
       /\ e.range[1] # NoPD /\ e.range[2] # NoPD THEN
        LET a == IF ~e.range[1].year4
                 THEN closest_year_for_month_day(e.range[1].day, e.range[1].year4)
                 ELSE e.range[1].day
            b == IF ~e.range[2].year4
                 THEN closest_year_for_month_day(e.range[2].day, e.range[2].year4)
                 ELSE e.range[2].day
            d1 == IF b < a THEN b ELSE a
            d2 == IF b < a THEN a ELSE b
        IN  [x EXCEPT !.checkin = d1, !.checkout = d2,
                      !.nights = Max(1, d2 - d1)]
    ELSE x

extract_entities(lex, e) ==
    IF lex.blank THEN EmptyExtract
    ELSE LET x == [EmptyExtract EXCEPT
                      !.name = ExtractName(e),
                      !.guests = ExtractGuests(e),
                      !.breakfast = NormBreakfast(e.br),
                      !.payment_method = NormPayment(e.pay)]
         IN  IF looks_like_name_response(lex) /\ ~lex.namePhrase THEN x
             ELSE ExtractRange(ExtractDates(x, e), e)

\* ----------------------------------------------------- the input families
\* One mention of a name, of a guest count, of the options, of dates.
NameEnts ==
    {[NoEnt EXCEPT !.person = "John Carter"],
     [NoEnt EXCEPT !.rxname = "John Carter"],
     [NoEnt EXCEPT !.person = "John Carter", !.rxname = "Carter"]}

GuestEnts ==
    {[NoEnt EXCEPT !.cardinals = <<2>>],
     [NoEnt EXCEPT !.cardinals = <<NoneInt, 0>>, !.rxguests = 2],
     [NoEnt EXCEPT !.rxguests = 0],
     [NoEnt EXCEPT !.rxguests = 2]}

OptionEnts ==
    {[NoEnt EXCEPT !.br = "without"], [NoEnt EXCEPT !.pay = "btc"],
     [NoEnt EXCEPT !.br = "american", !.pay = "debit"]}

DateEnts(P) ==
    {[NoEnt EXCEPT !.hits = <<a, b>>] : a \in P, b \in P}
    \cup {[NoEnt EXCEPT !.hits = <<a>>, !.forNights = k] :
             a \in P, k \in 0..MaxNights}
    \cup {[NoEnt EXCEPT !.hits = <<a>>, !.trailing = t] :
             a \in P, t \in P \cup {NoPD}}
    \cup {[NoEnt EXCEPT !.range = <<a, b>>] :
             a \in P \cup {NoPD}, b \in P \cup {NoPD}}

\* The kinds of entity an utterance mentions.
Mentions(e) ==
    (IF e.person # NoneStr \/ e.rxname # NoneStr THEN 1 ELSE 0)
    + (IF e.cardinals # <<>> \/ e.rxguests # NoneInt THEN 1 ELSE 0)
    + (IF e.br # NoneStr \/ e.pay # NoneStr THEN 1 ELSE 0)
    + (IF e.hits # <<>> \/ e.range # <<>> THEN 1 ELSE 0)

\* The utterances built from at most MaxMentions of the mentions above.
Combine(n, g, o, d) ==
    [person |-> n.person, rxname |-> n.rxname, cardinals |-> g.cardinals,
     rxguests |-> g.rxguests, br |-> o.br, pay |-> o.pay, hits |-> d.hits,
     forNights |-> d.forNights, trailing |-> d.trailing, range |-> d.range]

EntsOver(N, G, O, D) ==
    {e \in {Combine(n, g, o, d) : n \in N \cup {NoEnt}, g \in G \cup {NoEnt},
                                  o \in O \cup {NoEnt}, d \in D \cup {NoEnt}} :
        Mentions(e) <= MaxMentions}

\* What an utterance's characters allow the extractor to find in it: none
\* of it in an empty utterance, no number without a digit, no breakfast
\* token without the word breakfast (a directive).
Consistent(lex, e) ==
    /\ lex.blank => e = NoEnt
    /\ ~lex.digit => /\ FirstInt(e.cardinals) = NoneInt
                     /\ e.rxguests = NoneInt
                     /\ e.forNights = NoneInt
                     /\ e.range = <<>>
    /\ ~lex.directive => e.br = NoneStr

\* ------------------------------------------------------------------ app.py
\* LatestPending with the query's filter on confirmed inverted.
LatestPending_confirmedTrue(db, session) ==
    LET ids == {i \in 1..Len(db) :
                   db[i].session_id = session /\ db[i].confirmed}
    IN  IF ids = {} THEN 0 ELSE CHOOSE i \in ids : \A j \in ids : j <= i

\* The most recently created unconfirmed draft of a session (ids and
\* created_at both grow with insertion), 0 when the query finds none.
LatestPending(db, session) ==
    LET ids == {i \in 1..Len(db) :
                   db[i].session_id = session /\ ~db[i].confirmed}
    IN  IF ids = {} THEN 0 ELSE CHOOSE i \in ids : \A j \in ids : j <= i

\* compute_missing without the guest count.
compute_missing_noGuests(b) ==
    (IF ~TruthyStr(b.guest_name) THEN <<"name">> ELSE <<>>)
    \o (IF ~(TruthyDate(b.checkin)
             /\ (TruthyDate(b.checkout) \/ TruthyInt(b.nights)))
        THEN <<"dates">> ELSE <<>>)
\* lines 61-69
compute_missing(b) ==
    (IF ~TruthyStr(b.guest_name) THEN <<"name">> ELSE <<>>)
    \o (IF ~(TruthyDate(b.checkin)
             /\ (TruthyDate(b.checkout) \/ TruthyInt(b.nights)))
        THEN <<"dates">> ELSE <<>>)
    \o (IF ~TruthyInt(b.guests) THEN <<"number of guests">> ELSE <<>>)

Has(seq, x) == \E i \in 1..Len(seq) : seq[i] = x

\* lines 87-107: every truthy extracted value overwrites its column.
MergeExtracted(b, x) ==
    [b EXCEPT
       !.guest_name = IF TruthyStr(x.name) THEN x.name ELSE @,
       !.guests = IF TruthyInt(x.guests) THEN x.guests ELSE @,
       !.checkin = IF TruthyDate(x.checkin) THEN x.checkin ELSE @,
       !.checkout = IF TruthyDate(x.checkout) THEN x.checkout ELSE @,
       !.nights = IF TruthyInt(x.nights) THEN x.nights ELSE @,
       !.breakfast = IF TruthyStr(x.breakfast) THEN x.breakfast ELSE @,
       !.payment_method =
           IF TruthyStr(x.payment_method) THEN x.payment_method ELSE @]

\* db_sess.add(obj); db_sess.commit(): the UPDATE sets the columns whose
\* value differs from the one the object was loaded with.
Commit(db, bid, loaded, obj) ==
    [db EXCEPT ![bid] =
       [session_id |-> @.session_id,
        guest_name |-> IF obj.guest_name # loaded.guest_name
                       THEN obj.guest_name ELSE @.guest_name,
        checkin |-> IF obj.checkin # loaded.checkin
                    THEN obj.checkin ELSE @.checkin,
        checkout |-> IF obj.checkout # loaded.checkout
                     THEN obj.checkout ELSE @.checkout,
        nights |-> IF obj.nights # loaded.nights
                   THEN obj.nights ELSE @.nights,
        guests |-> IF obj.guests # loaded.guests
                   THEN obj.guests ELSE @.guests,
        breakfast |-> IF obj.breakfast # loaded.breakfast
                      THEN obj.breakfast ELSE @.breakfast,
        payment_method |-> IF obj.payment_method # loaded.payment_method
                           THEN obj.payment_method ELSE @.payment_method,
        confirmed |-> IF obj.confirmed # loaded.confirmed
                      THEN obj.confirmed ELSE @.confirmed,
        notes |-> IF obj.notes # loaded.notes THEN obj.notes ELSE @.notes]]

\* The last request served and its response: the route, the draft the
\* response reports, the HTTP status and the all_required_present flag; for
\* a message turn also the request's session, which reply the response
\* carries ("need": line 117, "confirmed": line 125, "cancelled": line 132,
\* "complete": line 155, "ask": line 168), the utterance when it is not
\* empty and looks like a name (nametext), whether the name guard (line 74)
\* took it as the name, and the name the extractor yielded.
Response(op, session, bid, status, reply, nametext, guard, exname, arp) ==
    [op |-> op, session |-> session, bid |-> bid, status |-> status,
     reply |-> reply, nametext |-> nametext, guard |-> guard,
     exname |-> exname, arp |-> arp]

NoResponse ==
    Response("none", "none", 0, 0, "none", NoneStr, FALSE, NoneStr, FALSE)

\* What handle_message reads of an utterance: the text (line 53), whether
\* it looks like a name (line 74), what the extractor returns for it
\* (line 81) and its intent (line 83).
Utterance(lex, e) ==
    [text |-> lex.text, namelike |-> looks_like_name_response(lex),
     extracted |-> extract_entities(lex, e), intent |-> detect_intent(lex)]

\* A message turn in flight: where it is in handle_message (pc) and its
\* local variables: the request (session, u), the ORM object (bid, obj, and
\* loaded, its columns as last read), the guard's verdict and the
\* extractor's output.
NewRequest(session, u) ==
    [pc |-> "lookup", session |-> session, u |-> u, bid |-> 0,
     obj |-> NewBooking(session), loaded |-> NewBooking(session),
     guard |-> FALSE, extracted |-> EmptyExtract, resp |-> NoResponse]

\* No turn in flight.
Idle == [pc |-> "idle"]

\* db_sess.refresh(obj) after a commit that left the table as db: the
\* object holds its row's columns again.
Refreshed(db, r, pc) ==
    [db |-> db,
     r |-> [r EXCEPT !.pc = pc, !.obj = db[r.bid], !.loaded = db[r.bid]]]

\* db_sess.add(obj); db_sess.commit(); db_sess.refresh(obj)
Save(db, r, obj, pc) == Refreshed(Commit(db, r.bid, r.loaded, obj), r, pc)

\* line 14: the query of get_or_create_pending.
Loaded(db, r, p) ==
    IF p # 0
    THEN [db |-> db,
          r |-> [r EXCEPT !.pc = "guard", !.bid = p, !.obj = db[p],
                          !.loaded = db[p]]]
    ELSE [db |-> db, r |-> [r EXCEPT !.pc = "create"]]

\* QueryPending that never finds a draft: every turn starts a new one.
QueryPending_alwaysNew(db, r) == Loaded(db, r, 0)

QueryPending(db, r) == Loaded(db, r, LatestPending(db, r.session))

\* lines 15-19: no pending draft was found; insert one, commit, refresh.
CreatePending(db, r) ==
    Refreshed(Append(db, NewBooking(r.session)),
              [r EXCEPT !.bid = Len(db) + 1], "guard")

\* lines 83-111: classify, merge, commit, refresh.
MergeAndSave(db, r) ==
    Save(db, r, MergeExtracted(r.obj, r.extracted), "branch")

\* NameGuard that still runs the extractor when it fires.
NameGuard_stillExtracts(db, r) ==
    IF Has(compute_missing(r.obj), "name") /\ r.u.text # "" /\ r.u.namelike
    THEN Save(db, [r EXCEPT !.guard = TRUE, !.extracted = r.u.extracted],
              [r.obj EXCEPT !.guest_name = r.u.text], "merge")
    ELSE MergeAndSave(db, [r EXCEPT !.extracted = r.u.extracted])

\* lines 71-81: the name guard; when it does not fire the extractor runs and
\* the turn goes on to the merge with no database access in between.
NameGuard(db, r) ==
    IF Has(compute_missing(r.obj), "name") /\ r.u.text # "" /\ r.u.namelike
    THEN Save(db, [r EXCEPT !.guard = TRUE],
              [r.obj EXCEPT !.guest_name = r.u.text], "merge")
    ELSE MergeAndSave(db, [r EXCEPT !.extracted = r.u.extracted])

\* lines 113-168: the intent's branch and the response.
Reply(r, reply, arp) ==
    Response("message", r.session, r.bid, 200, reply,
             IF r.u.text # "" /\ r.u.namelike THEN r.u.text ELSE NoneStr,
             r.guard, r.extracted.name, arp)

\* IntentBranch assigning the note instead of appending it.
IntentBranch_overwriteNotes(db, r) ==
    IF r.u.intent = "confirm" THEN
        IF compute_missing(r.obj) # <<>>
        THEN [db |-> db,
              r |-> [r EXCEPT !.pc = "done",
                              !.resp = Reply(r, "need", FALSE)]]
        ELSE Save(db, [r EXCEPT !.resp = Reply(r, "confirmed", TRUE)],
                  [r.obj EXCEPT !.confirmed = TRUE,
                                !.notes = <<"Confirmed">>], "done")
    ELSE IF r.u.intent = "cancel" THEN
        Save(db, [r EXCEPT !.resp = Reply(r, "cancelled", FALSE)],
             [r.obj EXCEPT !.notes = <<"Cancelled">>], "done")
    ELSE IF compute_missing(r.obj) = <<>>
    THEN [db |-> db,
          r |-> [r EXCEPT !.pc = "done", !.resp = Reply(r, "complete", TRUE)]]
    ELSE [db |-> db,
          r |-> [r EXCEPT !.pc = "done", !.resp = Reply(r, "ask", FALSE)]]

IntentBranch(db, r) ==
    IF r.u.intent = "confirm" THEN
        IF compute_missing(r.obj) # <<>>
        THEN [db |-> db,
              r |-> [r EXCEPT !.pc = "done",
                              !.resp = Reply(r, "need", FALSE)]]
        ELSE Save(db, [r EXCEPT !.resp = Reply(r, "confirmed", TRUE)],
                  [r.obj EXCEPT !.confirmed = TRUE,
                                !.notes = Append(@, "Confirmed")], "done")
    ELSE IF r.u.intent = "cancel" THEN
        Save(db, [r EXCEPT !.resp = Reply(r, "cancelled", FALSE)],
             [r.obj EXCEPT !.notes = Append(@, "Cancelled")], "done")
    ELSE IF compute_missing(r.obj) = <<>>
    THEN [db |-> db,
          r |-> [r EXCEPT !.pc = "done", !.resp = Reply(r, "complete", TRUE)]]
    ELSE [db |-> db,
          r |-> [r EXCEPT !.pc = "done", !.resp = Reply(r, "ask", FALSE)]]

\* One step of handle_message: up to its next commit (or its response).
StepOf(st) ==
    IF st.r.pc = "lookup" THEN QueryPending(st.db, st.r)
    ELSE IF st.r.pc = "create" THEN CreatePending(st.db, st.r)
    ELSE IF st.r.pc = "guard" THEN NameGuard(st.db, st.r)
    ELSE IF st.r.pc = "merge" THEN MergeAndSave(st.db, st.r)
    ELSE IF st.r.pc = "branch" THEN IntentBranch(st.db, st.r)
    ELSE st

\* handle_message run from its first line to its response with no other
\* request in between.
RECURSIVE RunTurn(_)
RunTurn(st) == IF st.r.pc = "done" THEN st ELSE RunTurn(StepOf(st))

\* The utterances of the lexical shapes L with the extractor results E.
UtterancesOver(L, E) ==
    {Utterance(p[1], p[2]) : p \in {q \in L \X E : Consistent(q[1], q[2])}}

\* confirm_booking that also appends a confirmation note.
confirm_booking_addsNote(db, bid) ==
    IF ~(bid \in 1..Len(db))
    THEN [db |-> db,
          resp |-> Response("confirm_booking", "none", bid, 404, "none",
                            NoneStr, FALSE, NoneStr, FALSE)]
    ELSE IF ~TruthyStr(db[bid].guest_name) \/ ~TruthyDate(db[bid].checkin)
            \/ ~TruthyInt(db[bid].guests)
    THEN [db |-> db,
          resp |-> Response("confirm_booking", "none", bid, 400, "none",
                            NoneStr, FALSE, NoneStr, FALSE)]
    ELSE [db |-> Commit(db, bid, db[bid],
                        [db[bid] EXCEPT !.confirmed = TRUE,
                                        !.notes = Append(@, "Confirmed")]),
          resp |-> Response("confirm_booking", "none", bid, 200, "none",
                            NoneStr, FALSE, NoneStr, TRUE)]

\* lines 171-183
confirm_booking(db, bid) ==
    IF ~(bid \in 1..Len(db))
    THEN [db |-> db,
          resp |-> Response("confirm_booking", "none", bid, 404, "none",
                            NoneStr, FALSE, NoneStr, FALSE)]
    ELSE IF ~TruthyStr(db[bid].guest_name) \/ ~TruthyDate(db[bid].checkin)
            \/ ~TruthyInt(db[bid].guests)
    THEN [db |-> db,
          resp |-> Response("confirm_booking", "none", bid, 400, "none",
                            NoneStr, FALSE, NoneStr, FALSE)]
    ELSE [db |-> Commit(db, bid, db[bid], [db[bid] EXCEPT !.confirmed = TRUE]),
          resp |-> Response("confirm_booking", "none", bid, 200, "none",
                            NoneStr, FALSE, NoneStr, TRUE)]

\* lines 186-192
get_booking(db, bid) ==
    Response("get_booking", "none", bid,
             IF bid \in 1..Len(db) THEN 200 ELSE 404, "none", NoneStr, FALSE,
             NoneStr, FALSE)

\* ------------------------------------------------------------ the machine
Slots == {1, 2}

Init ==
    /\ bookings = <<>>
    /\ resp = NoResponse
    /\ reqs = [i \in Slots |-> Idle]

\* How many cancellation notes a draft holds.
Cancellations(b) == Cardinality({i \in 1..Len(b.notes) : b.notes[i] = "Cancelled"})

\* POST /api/message, processed alone: session s, utterance u; the table
\* holds at most cap rows and a draft at most MaxNotes cancellation notes.
Message(s, u, cap) ==
    /\ \E out \in {RunTurn([db |-> bookings, r |-> NewRequest(s, u)])} :
           /\ Len(out.db) <= cap
           /\ \A i \in 1..Len(out.db) : Cancellations(out.db[i]) <= MaxNotes
           /\ bookings' = out.db
           /\ resp' = out.r.resp
    /\ UNCHANGED reqs

\* lines 52-56: a message with no session_id.
MessageNoSession ==
    /\ resp' = Response("message", "none", 0, 400, "none", NoneStr, FALSE,
                        NoneStr, FALSE)
    /\ UNCHANGED <<bookings, reqs>>

\* POST /api/booking/<bid>/confirm
ConfirmBooking ==
    \E bid \in 1..(Len(bookings) + 1) :
        \E out \in {confirm_booking(bookings, bid)} :
            /\ bookings' = out.db
            /\ resp' = out.resp
            /\ UNCHANGED reqs

\* GET /api/booking/<bid>
GetBooking ==
    \E bid \in 1..(Len(bookings) + 1) :
        /\ resp' = get_booking(bookings, bid)
        /\ UNCHANGED <<bookings, reqs>>

\* Requests processed one at a time, two sessions, drafts that come and go;
\* utterances that fill a draft one field at a time, confirm and cancel.
TodayOnly == {[day |-> Today, year4 |-> FALSE]}

LifeLexes == {LexName, LexConfirm, LexCancelMy}

LifeEnts ==
    EntsOver({[NoEnt EXCEPT !.person = "John Carter"]},
             {[NoEnt EXCEPT !.cardinals = <<2>>]},
             {[NoEnt EXCEPT !.br = "american", !.pay = "debit"]},
             {[NoEnt EXCEPT !.hits = <<a>>] : a \in TodayOnly}
             \cup {[NoEnt EXCEPT !.hits = <<a, a>>] : a \in TodayOnly})

LifeUtterances ==
    UtterancesOver({LexDetails}, LifeEnts) \cup UtterancesOver(LifeLexes, {NoEnt})

LifeMessage ==
    \E s \in Sessions, u \in LifeUtterances : Message(s, u, MaxBookings)

Next == LifeMessage \/ MessageNoSession \/ ConfirmBooking \/ GetBooking

Spec == Init /\ [][Next]_vars

\* Requests processed one at a time, one session, one draft from its creation
\* on, every extractor path.
DraftEnts == EntsOver(NameEnts, GuestEnts, OptionEnts, DateEnts(ParsedDates))

DraftUtterances == UtterancesOver(Lexes, DraftEnts)

DraftMessage == \E u \in DraftUtterances : Message("s1", u, 1)

NextDraft == DraftMessage

SpecDraft == Init /\ [][NextDraft]_vars

\* Two message turns of one session served by two threads, from the empty
\* table: each thread runs handle_message once, one database access (query,
\* or commit and refresh) at a time, with no lock between the threads.
ConcUtterances ==
    UtterancesOver({LexName, LexCancelMy, LexConfirm}, {NoEnt})
    \cup UtterancesOver({LexDetails}, {[NoEnt EXCEPT !.cardinals = <<2>>]})

\* A thread receives a request.
Start(i) ==
    /\ reqs[i].pc = "idle"
    /\ \E u \in ConcUtterances :
           reqs' = [reqs EXCEPT ![i] = NewRequest("s1", u)]
    /\ UNCHANGED <<bookings, resp>>

\* A thread takes its next step; the step that ends the turn sends the
\* response.
Step(i) ==
    /\ reqs[i].pc \notin {"idle", "done"}
    /\ \E out \in {StepOf([db |-> bookings, r |-> reqs[i]])} :
           /\ bookings' = out.db
           /\ reqs' = [reqs EXCEPT ![i] = out.r]
           /\ resp' = IF out.r.pc = "done" THEN out.r.resp ELSE resp

NextConc == \E i \in Slots : Start(i) \/ Step(i)

SpecConc == Init /\ [][NextConc]_vars

\* ================================================================ claims
\* The required fields of a draft, as the data model lists them: guest_name,
\* checkin and (checkout or nights), guests.
RequiredPresent(b) ==
    /\ b.guest_name # NoneStr /\ b.guest_name # ""
    /\ b.checkin # NoneInt
    /\ (b.checkout # NoneInt \/ (b.nights # NoneInt /\ b.nights # 0))
    /\ b.guests # NoneInt /\ b.guests # 0

\* The unconfirmed drafts of a session.
PendingIds(db, s) ==
    {i \in 1..Len(db) : db[i].session_id = s /\ ~db[i].confirmed}

\* The draft a message turn reports, as it was before the turn: an empty
\* draft of the turn's session when the turn created it.
RowBefore ==
    IF resp'.bid \in 1..Len(bookings) THEN bookings[resp'.bid]
    ELSE NewBooking(resp'.session)

MessageTurn == resp'.op = "message" /\ resp'.status = 200

IsPrefix(a, b) == Len(a) <= Len(b) /\ \A i \in 1..Len(a) : a[i] = b[i]

\* The draft a message turn reports, as the turn leaves it.
RowAfter == bookings'[resp'.bid]

\* C1: a message turn sets confirmed only on a draft that, after the turn's
\* merge, has every required field; a confirm turn (it answers "need" or
\* "confirmed") on a draft still missing one leaves confirmed false, appends
\* no note, reports all_required_present false and leaves the draft the
\* session's open draft, the one the session's next turn works on.
C1_Step ==
    MessageTurn =>
        /\ (RowAfter.confirmed /\ ~RowBefore.confirmed) =>
              /\ resp'.reply = "confirmed"
              /\ RequiredPresent(RowAfter)
        /\ (resp'.reply \in {"need", "confirmed"}
            /\ ~RequiredPresent(RowAfter)) =>
              /\ resp'.reply = "need"
              /\ ~RowAfter.confirmed
              /\ RowAfter.notes = RowBefore.notes
              /\ ~resp'.arp
              /\ LatestPending(bookings', resp'.session) = resp'.bid
        /\ (resp.op = "message" /\ resp.reply = "need"
            /\ resp.session = resp'.session) => resp'.bid = resp.bid

C1_ConfirmBlocksIncomplete == [][C1_Step]_vars

\* C1's case: a confirm turn refused on a draft that has its name and its
\* dates but no guest count.
C1_Witness ==
    /\ resp.op = "message" /\ resp.reply = "need"
    /\ bookings[resp.bid].guest_name # NoneStr
    /\ bookings[resp.bid].checkin # NoneInt
    /\ bookings[resp.bid].checkout # NoneInt
    /\ bookings[resp.bid].guests = NoneInt
    /\ ~bookings[resp.bid].confirmed
\* C2: in every reachable state every confirmed draft has all its required
\* fields: guest_name, guests, checkin, and checkout or nights.
C2_ConfirmedHasRequired ==
    \A i \in 1..Len(bookings) :
        bookings[i].confirmed => RequiredPresent(bookings[i])

\* C3: whenever a stored draft has both checkin and checkout, checkout is
\* not before checkin.
C3_CheckoutNotBeforeCheckin ==
    \A i \in 1..Len(bookings) :
        (bookings[i].checkin # NoneInt /\ bookings[i].checkout # NoneInt) =>
            bookings[i].checkout >= bookings[i].checkin

\* C4: whenever a stored draft has both checkin and checkout, nights is set
\* and equals max(1, days from checkin to checkout).
C4_NightsMatchDates ==
    \A i \in 1..Len(bookings) :
        (bookings[i].checkin # NoneInt /\ bookings[i].checkout # NoneInt) =>
            /\ bookings[i].nights # NoneInt
            /\ bookings[i].nights =
                   Max(1, bookings[i].checkout - bookings[i].checkin)
\* C5: with requests processed one at a time, every session has at most one
\* unconfirmed draft.
C5_OnePendingPerSession ==
    \A s \in Sessions : Cardinality(PendingIds(bookings, s)) <= 1

\* C5's case: a session that has confirmed one draft and holds the next one
\* open, cancelled once, beside an open draft of the other session.
C5_Witness ==
    /\ Len(bookings) >= 2
    /\ \E i, j \in 1..Len(bookings) :
          /\ i < j
          /\ bookings[i].session_id = bookings[j].session_id
          /\ bookings[i].confirmed
          /\ ~bookings[j].confirmed

\* C6: a cancel turn only appends a cancellation note: the draft's other
\* fields and confirmed are as before the turn, the draft is still there and
\* all_required_present is false.
C6_Step ==
    (MessageTurn /\ resp'.reply = "cancelled") =>
        /\ Len(bookings') >= Len(bookings)
        /\ RowAfter = [RowBefore EXCEPT !.notes = Append(@, "Cancelled")]
        /\ ~resp'.arp

C6_CancelOnlyAppendsNote == [][C6_Step]_vars
\* C7: a message turn creates a draft exactly when its session has no
\* unconfirmed draft as the turn starts, and the new draft starts empty;
\* otherwise it works on the session's latest unconfirmed draft.  So the turn
\* after a cancel turn of the same session works on the same draft, and the
\* turn after a successful confirm works on a new one.
C7_Step ==
    MessageTurn =>
        LET pend == PendingIds(bookings, resp'.session)
            b == bookings'[resp'.bid]
        IN  /\ resp'.bid \in 1..Len(bookings')
            /\ b.session_id = resp'.session
            /\ (pend = {}) <=> (Len(bookings') = Len(bookings) + 1)
            /\ pend = {} =>
                  /\ resp'.bid = Len(bookings')
                  /\ b.guest_name \in {NoneStr, resp'.nametext, resp'.exname}
                  /\ Len(b.notes) <= 1
            /\ pend # {} =>
                  /\ Len(bookings') = Len(bookings)
                  /\ resp'.bid \in pend
                  /\ \A j \in pend : j <= resp'.bid
            /\ (resp.op = "message" /\ resp.reply = "cancelled"
                /\ resp.session = resp'.session) =>
                  /\ resp'.bid = resp.bid
                  /\ Len(bookings') = Len(bookings)
            /\ (resp.op = "message" /\ resp.reply = "confirmed"
                /\ resp.session = resp'.session) =>
                  /\ resp'.bid # resp.bid
                  /\ resp'.bid = Len(bookings) + 1

C7_NewDraftIffNonePending == [][C7_Step]_vars

\* C7's case: a turn answered on draft 2 of a session whose draft 1 is
\* confirmed, draft 2 having been cancelled and still open.
C7_Witness ==
    /\ resp.op = "message" /\ resp.bid = 2
    /\ Len(bookings) = 2
    /\ bookings[1].confirmed /\ bookings[1].session_id = resp.session
    /\ bookings[2].session_id = resp.session
    /\ ~bookings[2].confirmed
    /\ bookings[2].notes = <<"Cancelled">>
    /\ resp.reply = "ask"
    /\ bookings[2].guests # NoneInt

\* C8: the name guard fires exactly when the draft's name is missing before
\* the turn and the utterance is not empty and looks like a name; then
\* guest_name becomes the utterance, the extractor is not run and the
\* draft's dates, nights, guests, breakfast and payment_method stay as they
\* were.  In every other turn guest_name becomes the name the extractor
\* yields, and stays as it was when the extractor yields none.
C8_Step ==
    MessageTurn =>
        LET fires == ~TruthyStr(RowBefore.guest_name)
                     /\ resp'.nametext # NoneStr
        IN  /\ resp'.guard <=> fires
            /\ fires =>
                  /\ RowAfter.guest_name = resp'.nametext
                  /\ resp'.exname = NoneStr
                  /\ RowAfter.checkin = RowBefore.checkin
                  /\ RowAfter.checkout = RowBefore.checkout
                  /\ RowAfter.nights = RowBefore.nights
                  /\ RowAfter.guests = RowBefore.guests
                  /\ RowAfter.breakfast = RowBefore.breakfast
                  /\ RowAfter.payment_method = RowBefore.payment_method
            /\ ~fires =>
                  RowAfter.guest_name =
                      IF TruthyStr(resp'.exname) THEN resp'.exname
                      ELSE RowBefore.guest_name

C8_NameGuard == [][C8_Step]_vars

\* C8's case: the guard has taken "John Carter" as the name of a draft that
\* already held its guests, dates and options, all of them still there.
C8_Witness ==
    /\ resp.op = "message" /\ resp.guard
    /\ bookings[resp.bid].guest_name = "John Carter"
    /\ bookings[resp.bid].guests # NoneInt
    /\ bookings[resp.bid].checkout # NoneInt
    /\ bookings[resp.bid].payment_method # NoneStr
\* C9: notes are append-only.  Every operation leaves every draft's notes a
\* prefix of what they become; a confirm turn that succeeds appends exactly
\* one confirmation note to its draft, a cancel turn exactly one
\* cancellation note, and nothing else changes any notes.
C9_Step ==
    /\ \A i \in 1..Len(bookings) :
          /\ i <= Len(bookings')
          /\ IsPrefix(bookings[i].notes, bookings'[i].notes)
          /\ (~MessageTurn \/ i # resp'.bid) =>
                bookings'[i].notes = bookings[i].notes
    /\ \A i \in 1..Len(bookings') :
          (i > Len(bookings) /\ (~MessageTurn \/ i # resp'.bid)) =>
              bookings'[i].notes = <<>>
    /\ MessageTurn =>
          bookings'[resp'.bid].notes =
              IF resp'.reply = "confirmed"
              THEN Append(RowBefore.notes, "Confirmed")
              ELSE IF resp'.reply = "cancelled"
              THEN Append(RowBefore.notes, "Cancelled")
              ELSE RowBefore.notes

C9_NotesAppendOnly == [][C9_Step]_vars

\* C9's case: a draft cancelled and then confirmed holds both notes, in order.
C9_Witness ==
    /\ resp.op = "message" /\ resp.reply = "confirmed"
    /\ bookings[resp.bid].notes = <<"Cancelled", "Confirmed">>

\* The table after the two turns run one after the other, from the empty
\* table, in the order u1, u2.
SerialOutcome(u1, u2) ==
    RunTurn([db |-> RunTurn([db |-> <<>>, r |-> NewRequest("s1", u1)]).db,
             r |-> NewRequest("s1", u2)]).db

BothDone == \A i \in Slots : reqs[i].pc = "done"

\* Both threads created a draft for the session.
TwoPending == Cardinality(PendingIds(bookings, "s1")) >= 2

\* Both turns answered "cancelled" on the same draft and it holds fewer than
\* two cancellation notes.
LostNote ==
    /\ \A i \in Slots : reqs[i].resp.reply = "cancelled"
    /\ reqs[1].bid = reqs[2].bid
    /\ Cancellations(bookings[reqs[1].bid]) < 2

\* C10: two turns of one session run by two threads can race.  When both
\* have answered and the session has two unconfirmed drafts, or a draft has
\* lost one turn's cancellation note, the table is one that neither serial
\* order of the same two turns produces.
C10_RaceLeavesSerialOrders ==
    (BothDone /\ (TwoPending \/ LostNote)) =>
        /\ bookings # SerialOutcome(reqs[1].u, reqs[2].u)
        /\ bookings # SerialOutcome(reqs[2].u, reqs[1].u)

\* C10's case: both turns have answered, each on a draft it created itself.
C10_Witness ==
    /\ BothDone
    /\ TwoPending
    /\ reqs[1].bid # reqs[2].bid
    /\ bookings # SerialOutcome(reqs[1].u, reqs[2].u)
    /\ bookings # SerialOutcome(reqs[2].u, reqs[1].u)

\* The other outcome of the race: both turns done, a cancellation note lost.
C10_LostNoteReached == BothDone /\ LostNote
\* C11: with requests processed one at a time a confirmed draft is final:
\* no message turn of any session, no direct confirm and no fetch changes
\* any field of a draft that is confirmed (its id is its place in the
\* table), the draft is not removed, and confirmed stays true.
C11_Step ==
    \A i \in 1..Len(bookings) :
        bookings[i].confirmed =>
            /\ i <= Len(bookings')
            /\ bookings'[i] = bookings[i]

C11_ConfirmedIsFinal == [][C11_Step]_vars

\* C11's case: draft 1, confirmed in the dialogue, has since seen its
\* session fill a second draft and has just been confirmed again directly.
C11_Witness ==
    /\ resp.op = "confirm_booking" /\ resp.status = 200 /\ resp.bid = 1
    /\ Len(bookings) = 2
    /\ bookings[1].confirmed
    /\ bookings[1].notes = <<"Confirmed">>
    /\ bookings[2].session_id = bookings[1].session_id
    /\ ~bookings[2].confirmed
    /\ bookings[2].guests # NoneInt
====
